---- MODULE Spec2Model ----
(***************************************************************************)
(* SonarQubeHandler (src/app.py): a client that reads bugs,                *)
(* vulnerabilities, security hotspots and the quality-gate status of a     *)
(* project from a SonarQube server.                                        *)
(*                                                                         *)
(* One caller drives one handler, as main() does.  Every step of the model *)
(* is the code that runs between two suspension points of a coroutine: a   *)
(* Call* action runs an operation up to the await of its first GET, a      *)
(* *Resume action runs from the arrival of the response to the next await  *)
(* or to the return / raise of the operation.                              *)
(*                                                                         *)
(* Encoding of Python values: a dict is a function whose DOMAIN is its key *)
(* set, a list is a sequence, a str is a string, an int of a JSON body is  *)
(* its decimal numeral, bytes are sequences of 0..255, and None is the     *)
(* reserved string None below, which no str of the model equals.           *)
(***************************************************************************)
EXTENDS Integers, Sequences, FiniteSets, TLC

\* Largest number of records in one upstream response of the model.
MaxLen == 2

\* Python's None (the default of dict.get and of os.getenv).
None == "<None>"

\* The page size every search asks for, and the request timeout.
PageSize == 100
Timeout == 30

DefaultHost == "https://sonarcloud.io"
IssuesEndpoint == "/api/issues/search"
HotspotsEndpoint == "/api/hotspots/search"
GateEndpoint == "/api/qualitygates/project_status"

ProjectKeys == {"alpha", "beta"}

VARIABLES
    env,              \* the process environment (os.environ)
    upstream,         \* the server: volatile, or stable with fixed answers
    pc,               \* where the caller is
    handler,          \* the SonarQubeHandler object (self), NoHandler if none
    built,            \* history: the handler as __init__ left it
    op,               \* the operation called last
    project_key,      \* its argument
    gets,             \* the GETs the operation has issued, in order
    conns,            \* the open httpx.AsyncClient resources, by GET number
    data,             \* local `data` of get_bug_details / get_quality_gate_status
    vuln_data,        \* local `vuln_data`
    hotspot_data,     \* local `hotspot_data`
    bugs,             \* local `bugs`
    vulnerabilities,  \* local `vulnerabilities`
    replies,          \* history: the responses to those GETs, in order
    outcome,          \* "running", "ok", or the exception the operation raised
    result,           \* what the operation returned, NoReport if nothing
    seen,             \* history: first outcome and result per (operation, key)
    repeat            \* history: the call repeats one recorded in seen

vars == <<env, upstream, pc, handler, built, op, project_key, gets, replies, conns, data,
          vuln_data, hotspot_data, bugs, vulnerabilities, outcome, result, seen, repeat>>

locals == <<data, vuln_data, hotspot_data, bugs, vulnerabilities>>

NoHandler == << >>
NoReport == << >>
Unbound == << >>

-----------------------------------------------------------------------------
(* Python primitives                                                       *)

\* obj[k]: the value, or KeyError(k).
Subscript(obj, k) ==
    IF k \in DOMAIN obj THEN [raised |-> FALSE, v |-> obj[k]]
                        ELSE [raised |-> TRUE, v |-> k]

\* obj.get(k, default)
Get(obj, k, default) == IF k \in DOMAIN obj THEN obj[k] ELSE default

\* os.getenv(k, default)
Getenv(k, default) == Get(env, k, default)

\* str.encode("utf-8"), on the strings the constructor can meet.
Utf8Encode(s) ==
    CASE s = "" -> << >>
      [] s = ":" -> <<58>>
      [] s = "tk" -> <<116, 107>>
      [] s = "tk:" -> <<116, 107, 58>>

B64Alphabet ==
    <<"A", "B", "C", "D", "E", "F", "G", "H", "I", "J", "K", "L", "M",
      "N", "O", "P", "Q", "R", "S", "T", "U", "V", "W", "X", "Y", "Z",
      "a", "b", "c", "d", "e", "f", "g", "h", "i", "j", "k", "l", "m",
      "n", "o", "p", "q", "r", "s", "t", "u", "v", "w", "x", "y", "z",
      "0", "1", "2", "3", "4", "5", "6", "7", "8", "9", "+", "/", "=">>

\* bytes.decode("utf-8") of base64 output: one character per sextet.
RECURSIVE B64Decode(_)
B64Decode(sextets) ==
    IF sextets = << >> THEN ""
    ELSE B64Alphabet[Head(sextets) + 1] \o B64Decode(Tail(sextets))

\* base64.b64encode: 3 bytes become 4 sextets; 64 stands for the pad '='.
RECURSIVE B64Encode(_)
B64Encode(b) ==
    IF Len(b) = 0 THEN << >>
    ELSE IF Len(b) = 1 THEN
        <<b[1] \div 4, (b[1] % 4) * 16, 64, 64>>
    ELSE IF Len(b) = 2 THEN
        <<b[1] \div 4, (b[1] % 4) * 16 + b[2] \div 16, (b[2] % 16) * 4, 64>>
    ELSE
        <<b[1] \div 4, (b[1] % 4) * 16 + b[2] \div 16,
          (b[2] % 16) * 4 + b[3] \div 64, b[3] % 64>>
        \o B64Encode(SubSeq(b, 4, Len(b)))

-----------------------------------------------------------------------------
(* __init__                                                                *)

\* The environments of the model: SONAR_HOST_URL and SONAR_TOKEN are each
\* set or not, and a token that is set may be empty.
Envs ==
    { [SONAR_TOKEN |-> t] : t \in {"", "tk"} }
    \cup { [SONAR_HOST_URL |-> "http://sonar.local", SONAR_TOKEN |-> t] :
             t \in {"", "tk"} }
    \cup { [SONAR_HOST_URL |-> "http://sonar.local"], [HOME |-> "/root"] }

\* A check that tests `is None` instead of truthiness.
TokenIsNone(token) == token = None

\* `not self.sonar_token`: None and the empty string are both falsy.
TokenMissing(token) == token = None \/ token = ""

\* The Basic Auth header of lines 23-25.
BasicAuth(token) ==
    LET token_bytes == Utf8Encode(token \o ":")
        auth_token == B64Decode(B64Encode(token_bytes))
    IN [Authorization |-> "Basic " \o auth_token]

Construct ==
    /\ pc = "start"
    /\ LET sonar_host == Getenv("SONAR_HOST_URL", DefaultHost)
           sonar_token == Getenv("SONAR_TOKEN", None)
       IN IF TokenMissing(sonar_token)
          THEN /\ pc' = "crashed"
               /\ outcome' = "ValueError"
               /\ UNCHANGED <<handler, built>>
          ELSE /\ handler' = [sonar_host |-> sonar_host,
                              sonar_token |-> sonar_token,
                              headers |-> BasicAuth(sonar_token)]
               /\ built' = handler'
               /\ pc' = "idle"
               /\ UNCHANGED outcome
    /\ UNCHANGED <<env, upstream, op, project_key, gets, replies, conns, locals, result,
                   seen, repeat>>

-----------------------------------------------------------------------------
(* The upstream server                                                     *)

Drop(rec, k) == [f \in DOMAIN rec \ {k} |-> rec[f]]

\* Two issue records of a project; the second has no line.
Issue(type, i, p) ==
    IF i = 1
    THEN [key |-> type \o "-1", type |-> type, rule |-> "python:S1192",
          severity |-> "MAJOR", message |-> "first", component |-> p \o ":a.py",
          line |-> "10", status |-> "OPEN"]
    ELSE [key |-> type \o "-2", type |-> type, rule |-> "python:S3776",
          severity |-> "CRITICAL", message |-> "second", component |-> p \o ":b.py",
          status |-> "CONFIRMED"]

\* Two hotspot records of a project; the second has no line.
Hotspot(i, p) ==
    IF i = 1
    THEN [key |-> "HS-1", ruleKey |-> "python:S2068", vulnerabilityProbability |-> "HIGH",
          message |-> "third", component |-> p \o ":c.py", line |-> "7",
          status |-> "TO_REVIEW"]
    ELSE [key |-> "HS-2", ruleKey |-> "python:S5332", vulnerabilityProbability |-> "LOW",
          message |-> "fourth", component |-> p \o ":d.py", status |-> "REVIEWED"]

Kinds == {"bugs", "vulns", "hotspots", "gate"}

Record(kind, i, p) ==
    CASE kind = "bugs" -> Issue("BUG", i, p)
      [] kind = "vulns" -> Issue("VULNERABILITY", i, p)
      [] kind = "hotspots" -> Hotspot(i, p)

\* The lists of at most MaxLen complete records, in every order.
CompleteLists(kind, p) ==
    UNION { { [j \in 1..n |-> Record(kind, pick[j], p)] : pick \in [1..n -> 1..2] } :
            n \in 0..MaxLen }

\* The same lists with one field of one record left out.
IncompleteLists(kind, p) ==
    UNION { UNION { { [l EXCEPT ![j] = Drop(l[j], k)] : k \in DOMAIN l[j] } :
                    j \in DOMAIN l } :
            l \in CompleteLists(kind, p) }

ListName(kind) == IF kind = "hotspots" THEN "hotspots" ELSE "issues"

\* The JSON bodies of a 200 response.
Bodies(kind, p) ==
    IF kind = "gate"
    THEN { [projectStatus |-> [status |-> st, ignoredConditions |-> "false"]] :
             st \in {"OK", "ERROR", "WARN", "NONE", "IN_PROGRESS"} }
         \cup { [projectStatus |-> [ignoredConditions |-> "false"]], [component |-> p] }
    ELSE { [total |-> "0"] }
         \cup { (ListName(kind) :> l) @@ [total |-> "2"] :
                  l \in CompleteLists(kind, p) \cup IncompleteLists(kind, p) }

ErrorBody == [errors |-> <<[msg |-> "not found"]>>]

OkResponse(body) == [net |-> "ok", status |-> 200, json |-> TRUE, body |-> body]

\* Everything a GET can meet: no response at all (connection failure, 30 s
\* timeout), an error status, a 200 whose body is not JSON, a 200 with JSON.
Responses(kind, p) ==
    { [net |-> "failed", status |-> 0, json |-> FALSE, body |-> Unbound] }
    \cup { [net |-> "ok", status |-> st, json |-> TRUE, body |-> ErrorBody] :
             st \in {404, 500} }
    \cup { [net |-> "ok", status |-> 200, json |-> FALSE, body |-> Unbound] }
    \cup { OkResponse(b) : b \in Bodies(kind, p) }

\* The answers of a server whose content does not change.
Canned(kind, p, pick) ==
    CASE pick = 1 -> [net |-> "ok", status |-> 404, json |-> TRUE, body |-> ErrorBody]
      [] pick = 2 /\ kind = "gate" -> OkResponse([projectStatus |-> [status |-> "OK"]])
      [] pick = 3 /\ kind = "gate" -> OkResponse([projectStatus |-> [status |-> "ERROR"]])
      [] pick = 2 /\ kind # "gate" ->
           OkResponse((ListName(kind) :> <<Record(kind, 1, p), Record(kind, 2, p)>>))
      [] pick = 3 /\ kind # "gate" ->
           OkResponse((ListName(kind) :> <<Record(kind, 2, p)>>))

Volatile == [stable |-> FALSE, pick |-> [k \in Kinds |-> 1]]

Upstreams == {Volatile} \cup { [stable |-> TRUE, pick |-> f] : f \in [Kinds -> 1..3] }

\* What a request asks for: the server routes on the path and the query.
KindOf(req) ==
    IF req.endpoint = IssuesEndpoint
    THEN (IF Get(req.params, "types", None) = "BUG" THEN "bugs" ELSE "vulns")
    ELSE IF req.endpoint = HotspotsEndpoint THEN "hotspots" ELSE "gate"

KeyOf(req) ==
    IF "componentKeys" \in DOMAIN req.params THEN req.params.componentKeys
    ELSE req.params.projectKey

Answers(req) ==
    IF upstream.stable
    THEN { Canned(KindOf(req), KeyOf(req), upstream.pick[KindOf(req)]) }
    ELSE Responses(KindOf(req), KeyOf(req))

-----------------------------------------------------------------------------
(* _get                                                                    *)

\* The request _get sends for an endpoint and its query parameters.
Request(endpoint, params) ==
    [endpoint |-> endpoint,
     url |-> handler.sonar_host \o endpoint,
     headers |-> handler.headers,
     params |-> params,
     timeout |-> Timeout]

\* A _get without raise_for_status.
RaisesNever(status) == FALSE

\* response.raise_for_status(): raises unless the status is 2xx.
RaisesForStatus(status) == ~(200 <= status /\ status <= 299)

\* How the body of `async with` ends: with the decoded JSON ("ok") or with
\* the exception of client.get, raise_for_status or response.json.
GetOutcome(resp) ==
    IF resp.net # "ok" THEN "TransportError"
    ELSE IF RaisesForStatus(resp.status) THEN "HTTPStatusError"
    ELSE IF ~resp.json THEN "JSONDecodeError"
    ELSE "ok"

\* A client closed by hand after the body, which an exception skips.
ReleaseUnlessRaised(open, id, how) == IF how = "ok" THEN open \ {id} ELSE open

\* Leaving `async with httpx.AsyncClient(...)`: the client of GET number id is
\* closed however the body ended.
Release(open, id, how) == open \ {id}

-----------------------------------------------------------------------------
(* Mapping upstream records                                                *)

Lookups(obj, keys) == [i \in 1..Len(keys) |-> Subscript(obj, keys[i])]

AnyRaised(ls) == \E i \in DOMAIN ls : ls[i].raised

\* The first KeyError of a dict display, whose values are evaluated in order.
FirstRaised(ls) ==
    ls[CHOOSE i \in DOMAIN ls : ls[i].raised /\ \A j \in 1..(i - 1) : ~ls[j].raised]

\* BugEntry with the rule copied into the severity.
BugEntryRuleAsSeverity(issue) ==
    LET ls == Lookups(issue, <<"key", "rule", "severity", "message", "component", "status">>)
    IN IF AnyRaised(ls) THEN FirstRaised(ls)
       ELSE [raised |-> FALSE,
             v |-> [issue_key |-> ls[1].v,
                    rule |-> ls[2].v,
                    severity |-> ls[2].v,
                    message |-> ls[4].v,
                    file_path |-> ls[5].v,
                    line |-> Get(issue, "line", None),
                    status |-> ls[6].v]]

\* The dict appended for an issue by get_bug_details.
BugEntry(issue) ==
    LET ls == Lookups(issue, <<"key", "rule", "severity", "message", "component", "status">>)
    IN IF AnyRaised(ls) THEN FirstRaised(ls)
       ELSE [raised |-> FALSE,
             v |-> [issue_key |-> ls[1].v,
                    rule |-> ls[2].v,
                    severity |-> ls[3].v,
                    message |-> ls[4].v,
                    file_path |-> ls[5].v,
                    line |-> Get(issue, "line", None),
                    status |-> ls[6].v]]

\* The dict appended for an issue by get_vulnerability_details.
VulnerabilityEntry(issue) ==
    LET ls == Lookups(issue, <<"key", "type", "rule", "severity", "message", "component",
                               "status">>)
    IN IF AnyRaised(ls) THEN FirstRaised(ls)
       ELSE [raised |-> FALSE,
             v |-> [issue_key |-> ls[1].v,
                    type |-> ls[2].v,
                    rule |-> ls[3].v,
                    severity |-> ls[4].v,
                    message |-> ls[5].v,
                    file_path |-> ls[6].v,
                    line |-> Get(issue, "line", None),
                    status |-> ls[7].v]]

\* HotspotEntry without the fixed type marker: the type is read from the record.
HotspotEntryTypeCopied(hotspot) ==
    LET ls == Lookups(hotspot, <<"key", "ruleKey", "vulnerabilityProbability", "message",
                                 "component", "status">>)
    IN IF AnyRaised(ls) THEN FirstRaised(ls)
       ELSE [raised |-> FALSE,
             v |-> [issue_key |-> ls[1].v,
                    type |-> Get(hotspot, "type", None),
                    rule |-> ls[2].v,
                    severity |-> ls[3].v,
                    message |-> ls[4].v,
                    file_path |-> ls[5].v,
                    line |-> Get(hotspot, "line", None),
                    status |-> ls[6].v]]

\* The dict appended for a hotspot by get_vulnerability_details.
HotspotEntry(hotspot) ==
    LET ls == Lookups(hotspot, <<"key", "ruleKey", "vulnerabilityProbability", "message",
                                 "component", "status">>)
    IN IF AnyRaised(ls) THEN FirstRaised(ls)
       ELSE [raised |-> FALSE,
             v |-> [issue_key |-> ls[1].v,
                    type |-> "SECURITY_HOTSPOT",
                    rule |-> ls[2].v,
                    severity |-> ls[3].v,
                    message |-> ls[4].v,
                    file_path |-> ls[5].v,
                    line |-> Get(hotspot, "line", None),
                    status |-> ls[6].v]]

Entry(kind, rec) ==
    CASE kind = "bugs" -> BugEntry(rec)
      [] kind = "vulns" -> VulnerabilityEntry(rec)
      [] kind = "hotspots" -> HotspotEntry(rec)

\* A loop that skips the records whose mapping raises.
RECURSIVE AppendAllSkipping(_, _, _)
AppendAllSkipping(list, records, kind) ==
    IF records = << >> THEN [raised |-> FALSE, list |-> list]
    ELSE LET e == Entry(kind, Head(records))
         IN IF e.raised THEN AppendAllSkipping(list, Tail(records), kind)
            ELSE AppendAllSkipping(Append(list, e.v), Tail(records), kind)

\* A `for ... : list.append({...})` loop: it stops at the first KeyError,
\* with the entries appended so far in the list.
RECURSIVE AppendAll(_, _, _)
AppendAll(list, records, kind) ==
    IF records = << >> THEN [raised |-> FALSE, list |-> list]
    ELSE LET e == Entry(kind, Head(records))
         IN IF e.raised THEN [raised |-> TRUE, list |-> list]
            ELSE AppendAll(Append(list, e.v), Tail(records), kind)

\* A list that is not created anew: the one the last call left behind.
StaleList == vulnerabilities

\* `bugs: List[Dict] = []`, `vulnerabilities: List[Dict] = []`
NewList == << >>

\* A status lookup that accepts only the four documented values.
GateStatusValidated(body) ==
    LET ps == Subscript(body, "projectStatus")
        st == Subscript(ps.v, "status")
    IN IF ps.raised THEN ps
       ELSE IF st.raised \/ st.v \in {"OK", "ERROR", "WARN", "NONE"} THEN st
       ELSE [raised |-> TRUE, v |-> st.v]

\* data["projectStatus"]["status"]
GateStatus(body) ==
    LET ps == Subscript(body, "projectStatus")
    IN IF ps.raised THEN ps ELSE Subscript(ps.v, "status")

-----------------------------------------------------------------------------
(* The operations                                                          *)

Remember(how, report) ==
    IF upstream.stable /\ <<op, project_key>> \notin DOMAIN seen
    THEN seen @@ (<<op, project_key>> :> [outcome |-> how, result |-> report])
    ELSE seen

\* The operation returns `report` to the caller.
Return(report) ==
    /\ outcome' = "ok"
    /\ result' = report
    /\ seen' = Remember("ok", report)
    /\ pc' = "idle"

\* The operation ends with exception `exc`: the caller gets no report.
Raise(exc) ==
    /\ outcome' = exc
    /\ result' = NoReport
    /\ seen' = Remember(exc, NoReport)
    /\ pc' = "idle"

\* A call of operation `name` with argument p begins in a fresh frame.
Enter(name, p) ==
    /\ pc = "idle"
    /\ op' = name
    /\ project_key' = p
    /\ outcome' = "running"
    /\ result' = NoReport
    /\ replies' = << >>
    /\ repeat' = (<<name, p>> \in DOMAIN seen)
    /\ UNCHANGED <<env, upstream, handler, built, seen>>

BugRequest(p) ==
    Request(IssuesEndpoint, [componentKeys |-> p, types |-> "BUG", ps |-> PageSize])

VulnerabilityRequest(p) ==
    Request(IssuesEndpoint, [componentKeys |-> p, types |-> "VULNERABILITY", ps |-> PageSize])

\* The second GET sent to the issue search again.
HotspotRequestToIssues(p) ==
    Request(IssuesEndpoint, [projectKey |-> p, ps |-> PageSize])

HotspotRequest(p) ==
    Request(HotspotsEndpoint, [projectKey |-> p, ps |-> PageSize])

GateRequest(p) ==
    Request(GateEndpoint, [projectKey |-> p])

\* get_bug_details, up to the await of its GET.
CallBugDetails(p) ==
    /\ Enter("get_bug_details", p)
    /\ gets' = <<BugRequest(p)>>
    /\ conns' = conns \cup {1}
    /\ data' = Unbound
    /\ vuln_data' = Unbound
    /\ hotspot_data' = Unbound
    /\ bugs' = Unbound
    /\ vulnerabilities' = Unbound
    /\ pc' = "bug_get"

\* get_bug_details, from the response to its return.
BugDetailsResume(resp) ==
    /\ pc = "bug_get"
    /\ replies' = Append(replies, resp)
    /\ LET how == GetOutcome(resp)
           loop == AppendAll(NewList, Get(resp.body, "issues", << >>), "bugs")
       IN /\ conns' = Release(conns, 1, how)
          /\ IF how # "ok"
             THEN /\ Raise(how)
                  /\ UNCHANGED <<data, bugs>>
             ELSE /\ data' = resp.body
                  /\ bugs' = loop.list
                  /\ IF loop.raised
                     THEN Raise("KeyError")
                     ELSE Return([project_key |-> project_key,
                                  bug_count |-> Len(loop.list),
                                  bugs |-> loop.list])
    /\ UNCHANGED <<env, upstream, handler, built, op, project_key, gets,
                   vuln_data, hotspot_data, vulnerabilities, repeat>>

\* get_vulnerability_details, up to the await of its first GET.
CallVulnerabilityDetails(p) ==
    /\ Enter("get_vulnerability_details", p)
    /\ vulnerabilities' = NewList
    /\ gets' = <<VulnerabilityRequest(p)>>
    /\ conns' = conns \cup {1}
    /\ data' = Unbound
    /\ vuln_data' = Unbound
    /\ hotspot_data' = Unbound
    /\ bugs' = Unbound
    /\ pc' = "vuln_get"

\* get_vulnerability_details, from the first response to the await of the
\* second GET.
VulnerabilitiesResume(resp) ==
    /\ pc = "vuln_get"
    /\ replies' = Append(replies, resp)
    /\ LET how == GetOutcome(resp)
           loop == AppendAll(vulnerabilities, Get(resp.body, "issues", << >>), "vulns")
       IN IF how # "ok"
          THEN /\ conns' = Release(conns, 1, how)
               /\ Raise(how)
               /\ UNCHANGED <<vuln_data, vulnerabilities, gets>>
          ELSE /\ vuln_data' = resp.body
               /\ vulnerabilities' = loop.list
               /\ IF loop.raised
                  THEN /\ conns' = Release(conns, 1, how)
                       /\ Raise("KeyError")
                       /\ UNCHANGED gets
                  ELSE /\ gets' = Append(gets, HotspotRequest(project_key))
                       /\ conns' = Release(conns, 1, how) \cup {2}
                       /\ pc' = "hotspot_get"
                       /\ UNCHANGED <<outcome, result, seen>>
    /\ UNCHANGED <<env, upstream, handler, built, op, project_key, data, hotspot_data, bugs,
                   repeat>>

\* get_vulnerability_details, from the second response to its return.
HotspotsResume(resp) ==
    /\ pc = "hotspot_get"
    /\ replies' = Append(replies, resp)
    /\ LET how == GetOutcome(resp)
           loop == AppendAll(vulnerabilities, Get(resp.body, "hotspots", << >>), "hotspots")
       IN /\ conns' = Release(conns, 2, how)
          /\ IF how # "ok"
             THEN /\ Raise(how)
                  /\ UNCHANGED <<hotspot_data, vulnerabilities>>
             ELSE /\ hotspot_data' = resp.body
                  /\ vulnerabilities' = loop.list
                  /\ IF loop.raised
                     THEN Raise("KeyError")
                     ELSE Return([project_key |-> project_key,
                                  vulnerability_count |-> Len(loop.list),
                                  vulnerabilities |-> loop.list])
    /\ UNCHANGED <<env, upstream, handler, built, op, project_key, gets, data, vuln_data,
                   bugs, repeat>>

\* get_quality_gate_status, up to the await of its GET.
CallQualityGateStatus(p) ==
    /\ Enter("get_quality_gate_status", p)
    /\ gets' = <<GateRequest(p)>>
    /\ conns' = conns \cup {1}
    /\ data' = Unbound
    /\ vuln_data' = Unbound
    /\ hotspot_data' = Unbound
    /\ bugs' = Unbound
    /\ vulnerabilities' = Unbound
    /\ pc' = "gate_get"

\* get_quality_gate_status, from the response to its return.
QualityGateResume(resp) ==
    /\ pc = "gate_get"
    /\ replies' = Append(replies, resp)
    /\ LET how == GetOutcome(resp)
           status == GateStatus(resp.body)
       IN /\ conns' = Release(conns, 1, how)
          /\ IF how # "ok"
             THEN /\ Raise(how)
                  /\ UNCHANGED data
             ELSE /\ data' = resp.body
                  /\ IF status.raised
                     THEN Raise("KeyError")
                     ELSE Return([project_key |-> project_key,
                                  quality_gate_status |-> status.v])
    /\ UNCHANGED <<env, upstream, handler, built, op, project_key, gets, vuln_data,
                   hotspot_data, bugs, vulnerabilities, repeat>>

-----------------------------------------------------------------------------

Init ==
    /\ env \in Envs
    /\ upstream \in Upstreams
    /\ pc = "start"
    /\ handler = NoHandler
    /\ built = NoHandler
    /\ op = "none"
    /\ project_key = "none"
    /\ gets = << >>
    /\ replies = << >>
    /\ conns = {}
    /\ data = Unbound
    /\ vuln_data = Unbound
    /\ hotspot_data = Unbound
    /\ bugs = Unbound
    /\ vulnerabilities = Unbound
    /\ outcome = "none"
    /\ result = NoReport
    /\ seen = << >>
    /\ repeat = FALSE

\* The responses the pending GET can get.
Answer == IF pc \in {"start", "crashed", "idle"} THEN {} ELSE Answers(gets[Len(gets)])

Next ==
    \/ Construct
    \/ \E p \in ProjectKeys : CallBugDetails(p)
    \/ \E resp \in Answer : BugDetailsResume(resp)
    \/ \E p \in ProjectKeys : CallVulnerabilityDetails(p)
    \/ \E resp \in Answer : VulnerabilitiesResume(resp)
    \/ \E resp \in Answer : HotspotsResume(resp)
    \/ \E p \in ProjectKeys : CallQualityGateStatus(p)
    \/ \E resp \in Answer : QualityGateResume(resp)

Spec == Init /\ [][Next]_vars

-----------------------------------------------------------------------------
(* Properties                                                              *)

\* A call of an operation has ended.
Ended == pc = "idle" /\ op # "none"

\* A GET got a 2xx response with a JSON body.
Succeeded(resp) == resp.net = "ok" /\ resp.status \in 200..299 /\ resp.json

\* A GET failed: no response, or a response that is not 2xx.
Failed(resp) == resp.net # "ok" \/ resp.status \notin 200..299

LineOf(rec) == IF "line" \in DOMAIN rec THEN rec.line ELSE None

IssueFields == {"key", "rule", "severity", "message", "component", "status"}

\* C1: when the issue search of get_bug_details succeeds with a list of N
\* well-formed issues, the operation returns a report with the input project
\* key, bug_count = N and N bugs, the i-th being the i-th upstream issue
\* mapped field by field, with line None where the issue has no line.
C1_BugReport ==
    ( /\ Ended
      /\ op = "get_bug_details"
      /\ Succeeded(replies[1])
      /\ "issues" \in DOMAIN replies[1].body
      /\ \A i \in DOMAIN replies[1].body.issues :
            IssueFields \subseteq DOMAIN replies[1].body.issues[i] )
    => LET issues == replies[1].body.issues
       IN /\ outcome = "ok"
          /\ DOMAIN result = {"project_key", "bug_count", "bugs"}
          /\ result.project_key = project_key
          /\ gets[1].params.componentKeys = project_key
          /\ result.bug_count = Len(issues)
          /\ Len(result.bugs) = Len(issues)
          /\ \A i \in DOMAIN issues :
                result.bugs[i] = [issue_key |-> issues[i].key,
                                  rule |-> issues[i].rule,
                                  severity |-> issues[i].severity,
                                  message |-> issues[i].message,
                                  file_path |-> issues[i].component,
                                  status |-> issues[i].status,
                                  line |-> LineOf(issues[i])]

\* Two different bugs were reported, the first with a line, the second without.
C1_Witness ==
    /\ Ended
    /\ op = "get_bug_details"
    /\ outcome = "ok"
    /\ result.bug_count = 2
    /\ result.bugs[1].issue_key = "BUG-1"
    /\ result.bugs[1].line = "10"
    /\ result.bugs[2].issue_key = "BUG-2"
    /\ result.bugs[2].line = None

HotspotFields ==
    {"key", "ruleKey", "vulnerabilityProbability", "message", "component", "status"}

\* C2: when the issue search of get_vulnerability_details returns V
\* well-formed issues and its hotspot search H well-formed hotspots, the
\* report counts V + H entries: the V issues in upstream order, each with
\* the upstream type, then the H hotspots in upstream order, each with type
\* SECURITY_HOTSPOT, the vulnerabilityProbability as severity and the
\* ruleKey as rule.
C2_VulnerabilityReport ==
    ( /\ Ended
      /\ op = "get_vulnerability_details"
      /\ Len(replies) = 2
      /\ Succeeded(replies[1])
      /\ Succeeded(replies[2])
      /\ "issues" \in DOMAIN replies[1].body
      /\ "hotspots" \in DOMAIN replies[2].body
      /\ \A i \in DOMAIN replies[1].body.issues :
            IssueFields \cup {"type"} \subseteq DOMAIN replies[1].body.issues[i]
      /\ \A j \in DOMAIN replies[2].body.hotspots :
            HotspotFields \subseteq DOMAIN replies[2].body.hotspots[j] )
    => LET issues == replies[1].body.issues
           hotspots == replies[2].body.hotspots
           V == Len(issues)
           H == Len(hotspots)
       IN /\ outcome = "ok"
          /\ DOMAIN result = {"project_key", "vulnerability_count", "vulnerabilities"}
          /\ result.project_key = project_key
          /\ result.vulnerability_count = V + H
          /\ Len(result.vulnerabilities) = V + H
          /\ \A i \in 1..V :
                result.vulnerabilities[i] = [issue_key |-> issues[i].key,
                                             type |-> issues[i].type,
                                             rule |-> issues[i].rule,
                                             severity |-> issues[i].severity,
                                             message |-> issues[i].message,
                                             file_path |-> issues[i].component,
                                             status |-> issues[i].status,
                                             line |-> LineOf(issues[i])]
          /\ \A j \in 1..H :
                result.vulnerabilities[V + j] =
                    [issue_key |-> hotspots[j].key,
                     type |-> "SECURITY_HOTSPOT",
                     rule |-> hotspots[j].ruleKey,
                     severity |-> hotspots[j].vulnerabilityProbability,
                     message |-> hotspots[j].message,
                     file_path |-> hotspots[j].component,
                     status |-> hotspots[j].status,
                     line |-> LineOf(hotspots[j])]

\* Two vulnerabilities followed by a HIGH hotspot were reported.
C2_Witness ==
    /\ Ended
    /\ op = "get_vulnerability_details"
    /\ outcome = "ok"
    /\ result.vulnerability_count = 3
    /\ result.vulnerabilities[1].type = "VULNERABILITY"
    /\ result.vulnerabilities[2].type = "VULNERABILITY"
    /\ result.vulnerabilities[1] # result.vulnerabilities[2]
    /\ result.vulnerabilities[3].type = "SECURITY_HOTSPOT"
    /\ result.vulnerabilities[3].severity = "HIGH"

\* C3: as soon as a GET of an operation fails (no response, or a status that
\* is not 2xx) the operation has ended with that error and without a report;
\* a failure of the hotspot search discards the vulnerabilities mapped before.
C3_FailedGetFailsOperation ==
    \A i \in DOMAIN replies :
        Failed(replies[i])
        => /\ pc = "idle"
           /\ i = Len(replies)
           /\ outcome = (IF replies[i].net # "ok" THEN "TransportError"
                                                 ELSE "HTTPStatusError")
           /\ result = NoReport

\* The hotspot search answered 404 after two vulnerabilities had been mapped.
C3_Witness ==
    /\ Ended
    /\ op = "get_vulnerability_details"
    /\ Len(replies) = 2
    /\ Succeeded(replies[1])
    /\ replies[2].status = 404
    /\ Len(vulnerabilities) = 2
    /\ outcome = "HTTPStatusError"
    /\ result = NoReport

\* C4: the constructor fails exactly when SONAR_TOKEN is unset or empty; then
\* there is no handler and no operation ever runs; and after the constructor,
\* failed or not, no GET has been issued and no connection opened.
C4_Construction ==
    LET missing == "SONAR_TOKEN" \notin DOMAIN env \/ env["SONAR_TOKEN"] = ""
    IN /\ pc # "start" => (pc = "crashed" <=> missing)
       /\ pc = "crashed" => /\ outcome = "ValueError"
                            /\ handler = NoHandler
                            /\ op = "none"
       /\ (pc # "start" /\ op = "none") => (gets = << >> /\ conns = {})
       /\ (pc = "idle" /\ op = "none") => /\ handler # NoHandler
                                          /\ handler.sonar_token = env["SONAR_TOKEN"]

\* The constructor failed on a token that is set but empty.
C4_Witness ==
    /\ pc = "crashed"
    /\ "SONAR_TOKEN" \in DOMAIN env
    /\ gets = << >>

\* The records of every list a successful GET of the call returned.
RecordsOf(name) ==
    UNION { { replies[i].body[name][j] : j \in DOMAIN replies[i].body[name] } :
            i \in { k \in DOMAIN replies :
                      Succeeded(replies[k]) /\ name \in DOMAIN replies[k].body } }

\* The quality-gate response has no projectStatus.status.
NoGateStatus ==
    /\ op = "get_quality_gate_status"
    /\ Succeeded(replies[1])
    /\ \/ "projectStatus" \notin DOMAIN replies[1].body
       \/ "status" \notin DOMAIN replies[1].body.projectStatus

\* C5 as stated: a search record, issue or hotspot, that lacks key, rule,
\* severity, message, component or status, or a quality-gate response without
\* projectStatus.status, makes the operation fail without a report.
C5_AsStated ==
    ( /\ Ended
      /\ \/ \E rec \in RecordsOf("issues") \cup RecordsOf("hotspots") :
               ~(IssueFields \subseteq DOMAIN rec)
         \/ NoGateStatus )
    => (outcome = "KeyError" /\ result = NoReport)

\* C5: an issue record that lacks key, rule, severity, message, component or
\* status, a hotspot record that lacks key, ruleKey, vulnerabilityProbability,
\* message, component or status, or a quality-gate response without
\* projectStatus.status, makes the operation fail with a KeyError and without
\* a report: the record is not skipped and the entries mapped before it are
\* not returned.
C5_MissingFieldIsFatal ==
    ( /\ Ended
      /\ \/ \E rec \in RecordsOf("issues") : ~(IssueFields \subseteq DOMAIN rec)
         \/ \E rec \in RecordsOf("hotspots") : ~(HotspotFields \subseteq DOMAIN rec)
         \/ NoGateStatus )
    => (outcome = "KeyError" /\ result = NoReport)

\* get_bug_details mapped one issue, met a second one without status, and
\* returned nothing.
C5_Witness ==
    /\ Ended
    /\ op = "get_bug_details"
    /\ Succeeded(replies[1])
    /\ "issues" \in DOMAIN data
    /\ Len(data.issues) = 2
    /\ "status" \notin DOMAIN data.issues[2]
    /\ Len(bugs) = 1
    /\ outcome = "KeyError"
    /\ result = NoReport

\* C6 as stated: a successful search response without its list (issues for
\* the issue search, hotspots for the hotspot search) makes the operation
\* fail; it is not read as an empty list.
C6_MissingListIsFatal ==
    ( /\ Ended
      /\ op \in {"get_bug_details", "get_vulnerability_details"}
      /\ \E i \in DOMAIN replies :
            /\ Succeeded(replies[i])
            /\ (IF gets[i].endpoint = HotspotsEndpoint THEN "hotspots" ELSE "issues")
                  \notin DOMAIN replies[i].body )
    => (outcome \notin {"ok", "running"} /\ result = NoReport)

\* C7: when the response holds projectStatus.status, get_quality_gate_status
\* returns the input project key and that status unchanged, whatever string
\* it is.
C7_QualityGatePassThrough ==
    ( /\ Ended
      /\ op = "get_quality_gate_status"
      /\ Succeeded(replies[1])
      /\ "projectStatus" \in DOMAIN replies[1].body
      /\ "status" \in DOMAIN replies[1].body.projectStatus )
    => /\ outcome = "ok"
       /\ result = [project_key |-> project_key,
                    quality_gate_status |-> replies[1].body.projectStatus.status]
       /\ gets[1].params.projectKey = project_key

\* A status outside OK, ERROR, WARN, NONE was reported.
C7_Witness ==
    /\ Ended
    /\ op = "get_quality_gate_status"
    /\ outcome = "ok"
    /\ result.quality_gate_status = "IN_PROGRESS"

\* C8: operations leave the handler as the constructor made it, and against
\* an unchanged upstream a call with the project key of an earlier call of
\* the same operation ends as that call did, with the same report.
C8_NoStateAcrossCalls ==
    /\ pc \notin {"start", "crashed"} =>
          /\ handler = built
          /\ handler.sonar_token = env["SONAR_TOKEN"]
          /\ handler.sonar_host =
                (IF "SONAR_HOST_URL" \in DOMAIN env THEN env["SONAR_HOST_URL"]
                                                    ELSE "https://sonarcloud.io")
    /\ (Ended /\ upstream.stable /\ <<op, project_key>> \in DOMAIN seen)
          => seen[<<op, project_key>>] = [outcome |-> outcome, result |-> result]

\* Every operation has run with every key, and get_vulnerability_details was
\* called again and returned four entries.
C8_Witness ==
    /\ Ended
    /\ upstream.stable
    /\ repeat
    /\ Cardinality(DOMAIN seen) = 6
    /\ op = "get_vulnerability_details"
    /\ outcome = "ok"
    /\ result.vulnerability_count = 4

\* C9: get_bug_details and get_quality_gate_status issue exactly one GET;
\* get_vulnerability_details issues the issue search, then, only once that
\* has succeeded, the hotspot search, and nothing more; no GET follows a
\* failed one; every search asks for one page of 100.
C9_RequestSequence ==
    op # "none" =>
        /\ Len(gets) \in 1..2
        /\ Len(replies) = (IF pc = "idle" THEN Len(gets) ELSE Len(gets) - 1)
        /\ \A i \in DOMAIN replies : ~Succeeded(replies[i]) => i = Len(gets)
        /\ op = "get_bug_details" =>
              /\ Len(gets) = 1
              /\ gets[1].endpoint = "/api/issues/search"
              /\ gets[1].params = [componentKeys |-> project_key, types |-> "BUG", ps |-> 100]
        /\ op = "get_quality_gate_status" =>
              /\ Len(gets) = 1
              /\ gets[1].endpoint = "/api/qualitygates/project_status"
              /\ gets[1].params = [projectKey |-> project_key]
        /\ op = "get_vulnerability_details" =>
              /\ gets[1].endpoint = "/api/issues/search"
              /\ gets[1].params =
                    [componentKeys |-> project_key, types |-> "VULNERABILITY", ps |-> 100]
              /\ Len(gets) = 2 =>
                    /\ Succeeded(replies[1])
                    /\ gets[2].endpoint = "/api/hotspots/search"
                    /\ gets[2].params = [projectKey |-> project_key, ps |-> 100]
              /\ (pc = "idle" /\ outcome = "ok") => Len(gets) = 2

\* get_vulnerability_details returned a report after exactly two GETs.
C9_Witness ==
    /\ Ended
    /\ op = "get_vulnerability_details"
    /\ Len(gets) = 2
    /\ outcome = "ok"
    /\ result.vulnerability_count = 2

\* C10: a finished operation has no connection open, however it ended, and
\* while a GET is pending its connection is the only one open: the first
\* GET's connection is closed before the second GET opens its own.
C10_ConnectionsReleased ==
    /\ pc \in {"start", "crashed", "idle"} => conns = {}
    /\ pc \notin {"start", "crashed", "idle"} => conns = {Len(gets)}

\* The second GET of get_vulnerability_details got a body that is not JSON.
C10_Witness ==
    /\ Ended
    /\ op = "get_vulnerability_details"
    /\ Len(gets) = 2
    /\ outcome = "JSONDecodeError"
    /\ conns = {}

====
